---------------------------- MODULE Spec2Model ----------------------------
(***************************************************************************)
(* Model of the course recommendation engine (src/recommender.py) and of   *)
(* the way the dashboard (src/app.py) builds and queries it.               *)
(*                                                                         *)
(* Representation choices                                                  *)
(*  - A string is a sequence of character codes (ASCII), so that strip,    *)
(*    lower-casing, substring search, tokenisation and Python's string     *)
(*    ordering are computed, not assumed.                                  *)
(*  - A float is a fixed-point integer: ratings in tenths (45 is 4.5),     *)
(*    similarities in units of 1/Scale (Scale is 1.0).                     *)
(*  - A missing CSV cell (pandas NaN) is the value NaN, Python's None the  *)
(*    value None.                                                          *)
(*  - Data frames are sequences of records; position k of the sequence is  *)
(*    the pandas positional index k-1 (iloc).                              *)
(***************************************************************************)
EXTENDS Integers, Sequences, FiniteSets, TLC

VARIABLES
    courses_file,       \* rows of data/courses.csv as read by pd.read_csv
    interactions_file,  \* rows of data/user_interactions.csv
    profiles_file,      \* rows of data/user_profiles.csv
    pc,                 \* where main() is: "start" before load_recommender,
                        \* "ready" past its None check, "failed" returned
    recommender,        \* what load_recommender() returned to main()
    courses_df,         \* self.courses_df
    interactions_df,    \* self.interactions_df
    profiles_df,        \* self.profiles_df
    similarity_matrix,  \* self.similarity_matrix
    course_id_to_idx,   \* self.course_id_to_idx
    op,                 \* the last query operation called
    args,               \* its arguments
    result              \* its return value

files == <<courses_file, interactions_file, profiles_file>>

engine == <<courses_df, interactions_df, profiles_df, similarity_matrix,
            course_id_to_idx>>

vars == <<files, pc, recommender, engine, op, args, result>>

-----------------------------------------------------------------------------
(* Bounds of the model *)

MaxCourses == 4        \* longest catalog drawn for the item and query specs
MaxInteractions == 2   \* longest interaction table drawn for the user spec
MaxTopN == 3           \* largest top_n passed to a query
MaxNegTopN == 2        \* top_n ranges over -MaxNegTopN .. MaxTopN
MaxStatRows == 3       \* longest interaction table drawn for the statistics

TopNs == (0 - MaxNegTopN) .. MaxTopN

-----------------------------------------------------------------------------
(* Scalars *)

\* pandas NaN and Python None: one-element sequences that no string equals
\* (no character has a negative code)
NaN == <<0 - 1>>
None == <<0 - 2>>

\* None where the caller expects a dict (Optional[Dict]): a record no dict of
\* the engine equals
NoneDict == [none |-> TRUE]

\* 1.0 as a fixed-point similarity
Scale == 10000

\* the rating threshold 4.5 of the liked subset, in tenths
LikedRating == 45

Min(a, b) == IF a <= b THEN a ELSE b
Max(a, b) == IF a >= b THEN a ELSE b

-----------------------------------------------------------------------------
(* Strings: sequences of character codes *)

sEmpty == <<>>
sSpace == <<32>>
sDot == <<46>>
sParen == <<40>>
sAll == <<65, 108, 108>>
s_py == <<112, 121>>
s_Py == <<80, 121>>
s_PY == <<80, 89>>
s_ml == <<109, 108>>
s_go == <<103, 111>>
s_ai == <<97, 105>>
s_of == <<111, 102>>
s_cs == <<99, 115>>
s_art == <<97, 114, 116>>
s_a == <<97>>
s_b == <<98>>
s_c1 == <<99, 49>>
s_c2 == <<99, 50>>
s_c3 == <<99, 51>>
s_c4 == <<99, 52>>
s_c9 == <<99, 57>>
s_c1pad == <<32, 99, 49, 32>>
s_u1 == <<117, 49>>
s_u2 == <<117, 50>>
s_u3 == <<117, 51>>
s_u1pad == <<32, 117, 49>>

IsSpace(c) == c \in {9, 10, 13, 32}

IsWordChar(c) == c \in (48..57) \cup (65..90) \cup (97..122) \cup {95}

\* str.lower()
Lower(s) == [i \in 1..Len(s) |-> IF s[i] \in 65..90 THEN s[i] + 32 ELSE s[i]]

RECURSIVE LStrip(_)
LStrip(s) == IF s # <<>> /\ IsSpace(Head(s)) THEN LStrip(Tail(s)) ELSE s

RECURSIVE RStrip(_)
RStrip(s) ==
    IF s # <<>> /\ IsSpace(s[Len(s)]) THEN RStrip(SubSeq(s, 1, Len(s) - 1)) ELSE s

\* str.strip()
Strip(s) == RStrip(LStrip(s))

\* Python's < on str: lexicographic by code point
RECURSIVE StrLess(_, _)
StrLess(a, b) ==
    IF b = <<>> THEN FALSE
    ELSE IF a = <<>> THEN TRUE
    ELSE IF Head(a) # Head(b) THEN Head(a) < Head(b)
    ELSE StrLess(Tail(a), Tail(b))


RECURSIVE MatchAt(_, _, _)
\* re.match of pattern pat at position i of s: every pattern character is a
\* literal except "." (46), which matches any character but a newline
MatchAt(pat, s, i) ==
    IF pat = <<>> THEN TRUE
    ELSE IF i > Len(s) THEN FALSE
    ELSE /\ \/ Head(pat) = s[i]
            \/ Head(pat) = 46 /\ s[i] # 10
         /\ MatchAt(Tail(pat), s, i + 1)

\* Series.str.contains(pat, case=False, na=False) on one cell: re.search with
\* re.IGNORECASE; a NaN cell gives False
str_contains(cell, pat) ==
    IF cell = NaN THEN FALSE
    ELSE \E i \in 1..(Len(cell) + 1) : MatchAt(Lower(pat), Lower(cell), i)

\* cell.fillna('')
fillna(cell) == IF cell = NaN THEN sEmpty ELSE cell

\* a + ' ' + b
Join(a, b) == a \o sSpace \o b

-----------------------------------------------------------------------------
(* TfidfVectorizer(stop_words='english') and cosine_similarity *)

\* the members of sklearn's English stop word list that the catalogs use
StopWords == {s_of}

RECURSIVE Tokenize(_, _)
\* the analyzer: lower-case, maximal runs of word characters of length >= 2
\* (token_pattern \b\w\w+\b), stop words dropped; cur is the run being read
Tokenize(s, cur) ==
    LET emit == IF Len(cur) >= 2 /\ cur \notin StopWords THEN <<cur>> ELSE <<>>
    IN  IF s = <<>> THEN emit
        ELSE IF IsWordChar(Head(s))
             THEN Tokenize(Tail(s), Append(cur, Head(Lower(<<Head(s)>>))))
             ELSE emit \o Tokenize(Tail(s), <<>>)

Tokens(s) == Tokenize(s, <<>>)

\* term frequency of term t in a token list
Tf(toks, t) == Cardinality({k \in 1..Len(toks) : toks[k] = t})

\* smooth idf, ln((1 + n) / (1 + df)) + 1, in tenths; IdfTable[n][df]
IdfTable ==
    << <<10>>,
       <<14, 10>>,
       <<17, 13, 10>>,
       <<19, 15, 12, 10>>,
       <<21, 17, 14, 12, 10>>,
       <<23, 18, 16, 13, 12, 10>> >>

RECURSIVE SumOver(_, _)
\* the sum of f[x] over the finite set S
SumOver(S, f) ==
    IF S = {} THEN 0
    ELSE LET x == CHOOSE y \in S : TRUE IN f[x] + SumOver(S \ {x}, f)

RECURSIVE SqrtSearch(_, _, _)
\* the greatest r in lo..hi with r * r <= x
SqrtSearch(x, lo, hi) ==
    IF lo >= hi THEN lo
    ELSE LET mid == (lo + hi + 1) \div 2
         IN  IF mid * mid <= x THEN SqrtSearch(x, mid, hi)
             ELSE SqrtSearch(x, lo, mid - 1)

\* the square root of x in 0 .. Scale * Scale, rounded down
FloorSqrt(x) == SqrtSearch(x, 0, Scale)

RECURSIVE LongDiv(_, _, _)
\* num * 10^digits divided by den, rounded down, one digit at a time
LongDiv(num, den, digits) ==
    IF digits = 0 THEN num \div den
    ELSE (num \div den) * 10^digits + LongDiv((num % den) * 10, den, digits - 1)

\* dot / sqrt(nn1 * nn2) in units of 1/Scale: the root of the squared cosine
\* taken to 8 decimals; exactly Scale when the two vectors are parallel
Cosine(dot, nn1, nn2) ==
    IF nn1 = 0 \/ nn2 = 0 THEN 0
    ELSE FloorSqrt(LongDiv(dot * dot, nn1 * nn2, 8))

\* the vocabulary fit() learns: every term of every document (max_features,
\* 500, is far above the number of terms of the catalogs drawn here)
Vocabulary(docs) ==
    UNION {{Tokens(docs[i])[k] : k \in 1..Len(Tokens(docs[i]))} : i \in 1..Len(docs)}

\* fit_transform followed by cosine_similarity: the matrix of cosines between
\* the tf-idf vectors of the documents; a document without any vocabulary
\* term has the zero vector, whose cosine with every vector is 0
cosine_similarity(docs) ==
    LET n == Len(docs)
        toks == [i \in 1..n |-> Tokens(docs[i])]
        vocabulary == Vocabulary(docs)
        df == [t \in vocabulary |->
                 Cardinality({i \in 1..n : Tf(toks[i], t) > 0})]
        w == [i \in 1..n |->
                 [t \in vocabulary |-> Tf(toks[i], t) * IdfTable[n][df[t]]]]
        dot == [i \in 1..n |-> [j \in 1..n |->
                 SumOver(vocabulary, [t \in vocabulary |-> w[i][t] * w[j][t]])]]
    IN  [i \in 1..n |-> [j \in 1..n |-> Cosine(dot[i][j], dot[i][i], dot[j][j])]]

-----------------------------------------------------------------------------
(* Python sequence helpers *)

\* the position a slice bound k denotes in a list of length n
SliceBound(k, n) == IF k < 0 THEN Max(n + k, 0) ELSE Min(k, n)

\* s[lo:hi]
Slice(s, lo, hi) == SubSeq(s, SliceBound(lo, Len(s)) + 1, SliceBound(hi, Len(s)))

RECURSIVE InsertDesc(_, _)
\* x placed after every element whose key is not smaller
InsertDesc(x, s) ==
    IF s = <<>> THEN <<x>>
    ELSE IF Head(s).key >= x.key THEN <<Head(s)>> \o InsertDesc(x, Tail(s))
    ELSE <<x>> \o s

RECURSIVE InsertDescBeforeTies(_, _)
InsertDescBeforeTies(x, s) ==
    IF s = <<>> THEN <<x>>
    ELSE IF Head(s).key > x.key THEN <<Head(s)>> \o InsertDescBeforeTies(x, Tail(s))
    ELSE <<x>> \o s

RECURSIVE sorted_reverse_unstable(_)
\* a descending sort that puts equal keys in reverse of their original order
sorted_reverse_unstable(s) ==
    IF s = <<>> THEN <<>>
    ELSE InsertDescBeforeTies(s[Len(s)],
                              sorted_reverse_unstable(SubSeq(s, 1, Len(s) - 1)))

RECURSIVE sorted_reverse(_)
\* sorted(s, key=..., reverse=True) on records carrying their sort key in the
\* field key: descending, and stable (equal keys keep their original order)
sorted_reverse(s) ==
    IF s = <<>> THEN <<>>
    ELSE InsertDesc(s[Len(s)], sorted_reverse(SubSeq(s, 1, Len(s) - 1)))

RECURSIVE InsertStr(_, _)
InsertStr(x, s) ==
    IF s = <<>> THEN <<x>>
    ELSE IF StrLess(x, Head(s)) THEN <<x>> \o s
    ELSE <<Head(s)>> \o InsertStr(x, Tail(s))

RECURSIVE sorted_str(_)
\* sorted(list of str)
sorted_str(s) ==
    IF s = <<>> THEN <<>>
    ELSE InsertStr(s[Len(s)], sorted_str(SubSeq(s, 1, Len(s) - 1)))

RECURSIVE unique(_)
\* Series.unique(): the distinct values in order of first appearance
unique(s) ==
    IF s = <<>> THEN <<>>
    ELSE LET front == unique(SubSeq(s, 1, Len(s) - 1))
             x == s[Len(s)]
         IN  IF \E k \in 1..Len(front) : front[k] = x THEN front
             ELSE Append(front, x)

\* round(x, 3) of a similarity: the nearest thousandth, half to even, in
\* thousandths
round3(x) ==
    LET q == x \div 10
        r == x % 10
    IN  IF r > 5 \/ (r = 5 /\ q % 2 = 1) THEN q + 1 ELSE q

\* DataFrame.iloc[idx], idx counted from 0
iloc(df, idx) == df[idx + 1]

-----------------------------------------------------------------------------
(* Construction: __init__ and _prepare_data *)

\* the rows of courses_df after _prepare_data: ids trimmed, missing text
\* cells replaced by '', combined_features added
prepare_courses(rows) ==
    [k \in 1..Len(rows) |->
        LET r == rows[k]
            title == fillna(r.title)
            subject == fillna(r.subject)
            level == fillna(r.level)
            description == fillna(r.description)
        IN  [course_id |-> Strip(r.course_id),
             title |-> title,
             subject |-> subject,
             level |-> level,
             description |-> description,
             rating |-> r.rating,
             students |-> r.students,
             combined_features |->
                 Join(Join(Join(title, subject), level), description)]]

\* the rows of interactions_df after _prepare_data: both ids trimmed
prepare_interactions(rows) ==
    [k \in 1..Len(rows) |->
        [rows[k] EXCEPT !.user_id = Strip(@), !.course_id = Strip(@)]]

\* {course_id: idx for idx, course_id in enumerate(...)}: a later row with
\* the same id overwrites the earlier one
build_course_id_to_idx(df) ==
    [id \in {df[k].course_id : k \in 1..Len(df)} |->
        CHOOSE idx \in 0..(Len(df) - 1) :
            /\ iloc(df, idx).course_id = id
            /\ \A j \in 0..(Len(df) - 1) : iloc(df, j).course_id = id => j <= idx]

Documents(df) == [k \in 1..Len(df) |-> df[k].combined_features]

build_similarity_matrix(df) == cosine_similarity(Documents(df))

\* a CSV file that does not exist: what a path holds when there is no file
Missing == <<[missing |-> TRUE]>>

\* pd.read_csv(file) raises FileNotFoundError
read_csv_raises(file) == file # <<>> /\ "missing" \in DOMAIN file[1]

\* one of the three reads of __init__ raises; __init__ re-raises it
ReadRaises(cf, inf, pf) ==
    read_csv_raises(cf) \/ read_csv_raises(inf) \/ read_csv_raises(pf)

\* fit_transform raises ValueError ("empty vocabulary") when no document has
\* a term; __init__ catches FileNotFoundError only, so the error leaves it
ConstructionRaises(rows) == Vocabulary(Documents(prepare_courses(rows))) = {}

\* CourseRecommender(...) raises instead of returning an object
InitRaises(cf, inf, pf) == ReadRaises(cf, inf, pf) \/ ConstructionRaises(cf)

\* a main() that goes on whatever load_recommender returned
main_continues_unchecked(rec) == TRUE

\* main(): `if recommender is None: ... return`
main_continues(rec) == rec # "None"

\* load_recommender(): the object when the constructor returns, None when it
\* raises (except Exception)
load_recommender(raised) == IF raised THEN "None" ELSE "CourseRecommender"

\* main() up to its None check: load_recommender() calls CourseRecommender(...)
\* and main returns when it got None.  When __init__ raises, the attributes
\* assigned before the raise stay on an object nothing refers to.
Construct ==
    /\ pc = "start"
    /\ LET raised == InitRaises(courses_file, interactions_file, profiles_file)
           read == ReadRaises(courses_file, interactions_file, profiles_file)
       IN  /\ recommender' = load_recommender(raised)
           /\ pc' = IF main_continues(load_recommender(raised))
                    THEN "ready" ELSE "failed"
           /\ IF raised
              THEN /\ courses_df' =
                          IF read_csv_raises(courses_file) THEN courses_df
                          ELSE IF read THEN courses_file
                          ELSE prepare_courses(courses_file)
                   /\ interactions_df' =
                          IF read_csv_raises(courses_file)
                             \/ read_csv_raises(interactions_file)
                          THEN interactions_df
                          ELSE interactions_file
                   /\ profiles_df' = IF read THEN profiles_df ELSE profiles_file
                   /\ UNCHANGED <<similarity_matrix, course_id_to_idx>>
              ELSE /\ courses_df' = prepare_courses(courses_file)
                   /\ interactions_df' = prepare_interactions(interactions_file)
                   /\ profiles_df' = profiles_file
                   /\ similarity_matrix' =
                          build_similarity_matrix(prepare_courses(courses_file))
                   /\ course_id_to_idx' =
                          build_course_id_to_idx(prepare_courses(courses_file))
    /\ UNCHANGED <<files, op, args, result>>

-----------------------------------------------------------------------------
(* recommend_by_course *)

\* the entry appended for course idx with score `score`; idx and score are
\* the loop variables, kept beside the fields of the returned dict
Recommendation(df, idx, score) ==
    [idx |-> idx,
     score |-> score,
     course_id |-> iloc(df, idx).course_id,
     title |-> iloc(df, idx).title,
     similarity_score |-> round3(score)]

\* sim_scores[1:top_n+1]
TopSlice(sim_scores, top_n) == Slice(sim_scores, 1, top_n + 1)

recommend_by_course(df, sim, course_title, top_n) ==
    LET course_match == {idx \in 0..(Len(df) - 1) : iloc(df, idx).title = course_title}
    IN  IF course_match = {} THEN <<>>
        ELSE
        LET course_idx == CHOOSE idx \in course_match :
                              \A j \in course_match : idx <= j
            sim_scores == [k \in 1..Len(df) |->
                              [idx |-> k - 1, key |-> iloc(sim, course_idx)[k]]]
            ranked == TopSlice(sorted_reverse(sim_scores), top_n)
        IN  [k \in 1..Len(ranked) |-> Recommendation(df, ranked[k].idx, ranked[k].key)]

-----------------------------------------------------------------------------
(* recommend_by_user *)

\* interactions_df[interactions_df['user_id'] == user_id]
rows_of_user(inter, user_id) ==
    SelectSeq(inter, LAMBDA r : r.user_id = user_id)

\* rating >= 4.5
IsLiked(r) == r.rating >= LikedRating

\* the liked subset without the fallback to the whole history
liked_courses_no_fallback(user_courses) == SelectSeq(user_courses, IsLiked)

\* the liked subset, or the whole history when nothing is liked
liked_courses(user_courses) ==
    IF SelectSeq(user_courses, IsLiked) = <<>> THEN user_courses
    ELSE SelectSeq(user_courses, IsLiked)

\* the indices of the liked ids the catalog knows, in order of first appearance
liked_indices(liked, id_to_idx) ==
    LET liked_course_ids == unique([k \in 1..Len(liked) |-> liked[k].course_id])
        known == SelectSeq(liked_course_ids, LAMBDA id : id \in DOMAIN id_to_idx)
    IN  [k \in 1..Len(known) |-> id_to_idx[known[k]]]

RECURSIVE SumRows(_, _, _)
\* the sum over the indices of the similarity row entries of column col
SumRows(sim, indices, col) ==
    IF indices = <<>> THEN 0
    ELSE iloc(sim, Head(indices))[col] + SumRows(sim, Tail(indices), col)

\* the sum of the liked rows, not divided
sum_similarity(sim, indices) ==
    [col \in 1..Len(sim) |-> SumRows(sim, indices, col)]

\* np.zeros(N), += each liked row, /= len(liked_indices)
avg_similarity(sim, indices) ==
    [col \in 1..Len(sim) |-> SumRows(sim, indices, col) \div Len(indices)]

\* the ids of the liked interactions only
taken_liked_only(user_courses) ==
    {user_courses[k].course_id :
        k \in {j \in 1..Len(user_courses) : IsLiked(user_courses[j])}}

\* set(user_courses['course_id'].unique())
taken_course_ids(user_courses) ==
    {user_courses[k].course_id : k \in 1..Len(user_courses)}

\* the key sorted() ranks the recommendations by: x['similarity_score']
RankKey(rec) == rec.similarity_score

recommend_from(df, sim, indices, taken, top_n) ==
    LET avg == avg_similarity(sim, indices)
        candidates == SelectSeq([k \in 1..Len(df) |-> k - 1],
                                LAMBDA idx : iloc(df, idx).course_id \notin taken)
        recommendations ==
            [k \in 1..Len(candidates) |->
                Recommendation(df, candidates[k], iloc(avg, candidates[k]))]
        keyed == [k \in 1..Len(recommendations) |->
                     [key |-> RankKey(recommendations[k]),
                      rec |-> recommendations[k]]]
        ranked == Slice(sorted_reverse(keyed), 0, top_n)
    IN  [k \in 1..Len(ranked) |-> ranked[k].rec]

recommend_by_user(df, inter, sim, id_to_idx, user, top_n) ==
    LET user_id == Strip(user)
        user_courses == rows_of_user(inter, user_id)
        indices == liked_indices(liked_courses(user_courses), id_to_idx)
    IN  IF user_courses = <<>> THEN <<>>
        ELSE IF indices = <<>> THEN <<>>
        ELSE recommend_from(df, sim, indices, taken_course_ids(user_courses), top_n)

-----------------------------------------------------------------------------
(* search_courses *)

\* bool(query and query.strip()): None and '' are falsy, and so is a query
\* of white space only
QueryActive(query) == query # None /\ query # sEmpty /\ Strip(query) # sEmpty

\* the query looked for in the title alone
query_mask_title_only(r, query) == str_contains(r.title, query)

\* the mask of the query filter on one row
query_mask(r, query) ==
    \/ str_contains(r.title, query)
    \/ str_contains(r.description, query)
    \/ str_contains(r.subject, query)

RECURSIVE ParenDepth(_, _)
\* the number of groups left open at the end of the pattern, or -1 when a ')'
\* closes no group
ParenDepth(pat, depth) ==
    IF pat = <<>> THEN depth
    ELSE IF Head(pat) = 40 THEN ParenDepth(Tail(pat), depth + 1)
    ELSE IF Head(pat) = 41
         THEN IF depth = 0 THEN 0 - 1 ELSE ParenDepth(Tail(pat), depth - 1)
    ELSE ParenDepth(Tail(pat), depth)

\* str.contains(query) compiles the query as a regular expression (regex=True
\* is the default): re.compile raises re.error for a pattern whose parentheses
\* do not pair up ("missing )", "unbalanced parenthesis")
re_compile_raises(pat) == ParenDepth(pat, 0) # 0

\* the exception leaving search_courses, in the place of its return value
ReError == <<[raised |-> "re.error"]>>

\* bool(value and value != "All") for the subject and level filters
ChoiceActive(value) == value # None /\ value # sEmpty /\ value # sAll

\* the rating filter applies when min_rating > 0 (the catalogs drawn here all
\* have the rating column)
RatingActive(min_rating) == min_rating > 0

\* the row passes the filters that apply, one after the other
passes_filters(r, query, subject, level, min_rating) ==
    /\ QueryActive(query) => query_mask(r, query)
    /\ ChoiceActive(subject) => r.subject = subject
    /\ ChoiceActive(level) => r.level = level
    /\ RatingActive(min_rating) => r.rating >= min_rating

search_courses(df, query, subject, level, min_rating) ==
    IF QueryActive(query) /\ re_compile_raises(query) THEN ReError
    ELSE SelectSeq(df, LAMBDA r : passes_filters(r, query, subject, level, min_rating))

-----------------------------------------------------------------------------
(* get_trending_courses *)

\* the score without the square root
trending_score_linear(r) == r.rating * r.students

\* rating * students ** 0.5, in tenths; the catalogs drawn here have perfect
\* squares as student counts, on which the root is exact
trending_score(r) == r.rating * FloorSqrt(r.students)

\* DataFrame.nlargest(n, column) with keep='first': nothing for n <= 0,
\* otherwise the n rows of greatest key in descending order, rows of equal
\* key in their original order
nlargest(keyed, n) ==
    IF n <= 0 THEN <<>>
    ELSE SubSeq(sorted_reverse(keyed), 1, Min(n, Len(keyed)))

\* the frame the method works on: a copy of courses_df with the score column
trending_frame(df) ==
    [k \in 1..Len(df) |->
        [row |-> df[k], idx |-> k - 1, key |-> trending_score(df[k])]]

get_trending_courses(df, top_n) ==
    LET trending == nlargest(trending_frame(df), top_n)
    IN  [k \in 1..Len(trending) |->
            [idx |-> trending[k].idx,
             course_id |-> trending[k].row.course_id,
             title |-> trending[k].row.title,
             rating |-> trending[k].row.rating,
             students |-> trending[k].row.students,
             trending_score |-> trending[k].key \div 10]]

\* the score column added to courses_df itself, were the copy left out
courses_df_with_score(df) ==
    [k \in 1..Len(df) |->
        [course_id |-> df[k].course_id, title |-> df[k].title,
         subject |-> df[k].subject, level |-> df[k].level,
         description |-> df[k].description, rating |-> df[k].rating,
         students |-> df[k].students,
         combined_features |-> df[k].combined_features,
         trending_score |-> trending_score(df[k])]]

\* self.courses_df after get_trending_courses: the score column is added to
\* the copy made at the start of the method, never to courses_df itself
courses_df_after_trending(df) == df

-----------------------------------------------------------------------------
(* Enumeration helpers *)

Column(df, name) == [k \in 1..Len(df) |-> df[k][name]]

get_all_courses(df) == sorted_str(Column(df, "title"))

get_all_users(inter) == sorted_str(unique(Column(inter, "user_id")))

get_all_subjects(df) == sorted_str(unique(Column(df, "subject")))

get_all_levels(df) == sorted_str(unique(Column(df, "level")))

-----------------------------------------------------------------------------
(* Statistics *)

RECURSIVE SumSeq(_)
SumSeq(s) == IF s = <<>> THEN 0 ELSE Head(s) + SumSeq(Tail(s))

\* round(num / den, 0), half to even
RoundDiv(num, den) ==
    LET q == num \div den
        r == num % den
    IN  IF 2 * r > den \/ (2 * r = den /\ q % 2 = 1) THEN q + 1 ELSE q

\* round(column.mean(), 2) of a column of tenths, in hundredths
mean_round2(col) == RoundDiv(SumSeq(col) * 10, Len(col))

\* Series.value_counts().to_dict()
value_counts(col) ==
    [v \in {col[k] : k \in 1..Len(col)} |->
        Cardinality({k \in 1..Len(col) : col[k] = v})]

\* the first value of the column, whatever its frequency
mode0_first(col) == col[1]

\* Series.mode()[0]: the most frequent value, the least one on a tie
mode0(col) ==
    LET counts == value_counts(col)
        modes == {v \in DOMAIN counts : \A u \in DOMAIN counts : counts[u] <= counts[v]}
    IN  CHOOSE v \in modes : \A u \in modes : u = v \/ StrLess(v, u)

get_course_details(df, course_title) ==
    LET course == SelectSeq(df, LAMBDA r : r.title = course_title)
    IN  IF course = <<>> THEN NoneDict ELSE course[1]

get_user_statistics(inter, user) ==
    LET user_data == rows_of_user(inter, Strip(user))
    IN  IF user_data = <<>> THEN NoneDict
        ELSE [total_courses |-> Len(user_data),
              avg_rating |-> mean_round2(Column(user_data, "rating")),
              favorite_subject |-> mode0(Column(user_data, "subject")),
              completed_courses |-> Len(user_data),
              in_progress_courses |-> 0]

get_platform_statistics(df, inter, profiles) ==
    [total_courses |-> Len(df),
     total_users |-> Len(profiles),
     avg_course_rating |-> mean_round2(Column(df, "rating")),
     subjects_count |-> Cardinality({df[k].subject : k \in 1..Len(df)}),
     total_enrollments |-> Len(inter),
     avg_students_per_course |-> SumSeq(Column(df, "students")) \div Len(df)]

get_subject_distribution(df) == value_counts(Column(df, "subject"))

get_level_distribution(df) == value_counts(Column(df, "level"))

-----------------------------------------------------------------------------
(* Input data *)

Course(id, title, subject, level, description, rating, students) ==
    [course_id |-> id, title |-> title, subject |-> subject, level |-> level,
     description |-> description, rating |-> rating, students |-> students]

Interaction(user, id, rating, subject) ==
    [user_id |-> user, course_id |-> id, rating |-> rating, subject |-> subject]

\* all sequences over S of length lo..hi
SeqsOf(S, lo, hi) == UNION {[1..k -> S] : k \in lo..hi}

\* the catalogs of 1..hi rows drawn from a set of rows, no row twice
Catalogs(rows, hi) ==
    {c \in SeqsOf(rows, 1, hi) : \A i, j \in 1..Len(c) : c[i] = c[j] => i = j}

\* rows for the item-to-item queries: two rows with the same text under
\* different titles, a row whose only word is a stop word, unrelated rows
ItemRows ==
    { Course(s_c1, s_py, NaN, NaN, s_ml, 40, 100),
      Course(s_c2, s_Py, NaN, NaN, s_ml, 40, 100),
      Course(s_c3, s_ml, NaN, NaN, NaN, 40, 100),
      Course(s_c4, s_of, NaN, NaN, NaN, 40, 100),
      Course(s_c9, s_go, NaN, NaN, s_py, 40, 100) }

SeedTitles == {s_py, s_Py, s_ml, s_of, s_go, s_PY}

\* rows for the user-to-item queries: c1 and c3 have the same text, c2 and
\* c4 share one term with them
UserCatalog ==
    << Course(s_c1, s_py, NaN, NaN, s_ai, 40, 100),
       Course(s_c2, s_Py, s_py, NaN, s_ai, 40, 100),
       Course(s_c3, s_PY, NaN, NaN, s_ai, 40, 100),
       Course(s_c4, s_ml, s_ml, NaN, s_py, 40, 100) >>

\* the catalogs of the user specification: the leading rows of UserCatalog,
\* and UserCatalog with its rows in reverse order
UserCatalogs ==
    {SubSeq(UserCatalog, 1, n) : n \in 2..Len(UserCatalog)}
        \cup {[k \in 1..Len(UserCatalog) |-> UserCatalog[Len(UserCatalog) + 1 - k]]}

\* interaction rows: liked and not liked ratings, the threshold itself, a
\* padded course id, a padded user id, an id no catalog row has
InteractionRows ==
    { Interaction(s_u1, s_c1, 50, s_cs),
      Interaction(s_u1, s_c4, 50, s_art),
      Interaction(s_u1, s_c2, 30, s_cs),
      Interaction(s_u1pad, s_c3, 45, s_art),
      Interaction(s_u2, s_c1pad, 40, s_cs),
      Interaction(s_u2, s_c9, 50, s_art),
      Interaction(s_u1, s_c9, 50, s_art) }

UserIds == {s_u1, s_u2, s_u3, s_u1pad}

\* rows for search, trending and the enumerations: a repeated title, two
\* subjects and levels, ratings 3.9, 4.0 and 4.5, two rows of equal trending
\* score (4.0 * sqrt(100) = 2.0 * sqrt(400))
QueryRows ==
    { Course(s_c1, s_Py, s_cs, s_b, NaN, 39, 100),
      Course(s_c2, s_ml, s_cs, s_a, s_py, 40, 100),
      Course(s_c3, s_Py, s_art, s_b, NaN, 45, 10000),
      Course(s_c4, s_go, s_art, s_a, s_ai, 20, 400) }

\* an interaction table in which users repeat and are out of order
QueryTable ==
    << Interaction(s_u2, s_c1pad, 40, s_cs),
       Interaction(s_u1, s_c1, 50, s_cs),
       Interaction(s_u1pad, s_c3, 45, s_art),
       Interaction(s_u2, s_c9, 50, s_art) >>

\* the profile table: only its row count is read
Profiles == <<[user_id |-> s_u1], [user_id |-> s_u2], [user_id |-> s_u3]>>

\* the arguments search_courses is called with
Queries == {None, sSpace, s_py, sDot, sParen}
Subjects == {None, sAll, s_cs}
Levels == {sAll, s_b}
MinRatings == {0, 40}

\* the state before main() runs: the three data files, no engine, no query
InitFiles(catalogs, tables, profiles) ==
    /\ courses_file \in catalogs
    /\ interactions_file \in tables
    /\ profiles_file \in profiles
    /\ pc = "start"
    /\ recommender = "unbound"
    /\ courses_df = <<>>
    /\ interactions_df = <<>>
    /\ profiles_df = <<>>
    /\ similarity_matrix = <<>>
    /\ course_id_to_idx = <<>>
    /\ op = "none"
    /\ args = <<>>
    /\ result = None

InitWith(catalogs, tables) == InitFiles(catalogs, tables, {Profiles})

-----------------------------------------------------------------------------
(* Query actions *)

RecommendByCourse ==
    /\ pc = "ready"
    /\ \E course_title \in SeedTitles, top_n \in TopNs :
          /\ op' = "recommend_by_course"
          /\ args' = <<course_title, top_n>>
          /\ result' = recommend_by_course(courses_df, similarity_matrix,
                                           course_title, top_n)
    /\ UNCHANGED <<files, pc, recommender, engine>>

RecommendByUser ==
    /\ pc = "ready"
    /\ \E user_id \in UserIds, top_n \in TopNs :
          /\ op' = "recommend_by_user"
          /\ args' = <<user_id, top_n>>
          /\ result' = recommend_by_user(courses_df, interactions_df,
                                         similarity_matrix, course_id_to_idx,
                                         user_id, top_n)
    /\ UNCHANGED <<files, pc, recommender, engine>>

SearchCourses ==
    /\ pc = "ready"
    /\ \E query \in Queries, subject \in Subjects, level \in Levels,
          min_rating \in MinRatings :
          /\ op' = "search_courses"
          /\ args' = <<query, subject, level, min_rating>>
          /\ result' = search_courses(courses_df, query, subject, level, min_rating)
    /\ UNCHANGED <<files, pc, recommender, engine>>

GetTrendingCourses ==
    /\ pc = "ready"
    /\ \E top_n \in TopNs :
          /\ op' = "get_trending_courses"
          /\ args' = <<top_n>>
          /\ result' = get_trending_courses(courses_df, top_n)
    /\ courses_df' = courses_df_after_trending(courses_df)
    /\ UNCHANGED <<files, pc, recommender, interactions_df, profiles_df,
                   similarity_matrix, course_id_to_idx>>

GetAllCourses ==
    /\ pc = "ready"
    /\ op' = "get_all_courses"
    /\ args' = <<>>
    /\ result' = get_all_courses(courses_df)
    /\ UNCHANGED <<files, pc, recommender, engine>>

GetAllUsers ==
    /\ pc = "ready"
    /\ op' = "get_all_users"
    /\ args' = <<>>
    /\ result' = get_all_users(interactions_df)
    /\ UNCHANGED <<files, pc, recommender, engine>>

GetAllSubjects ==
    /\ pc = "ready"
    /\ op' = "get_all_subjects"
    /\ args' = <<>>
    /\ result' = get_all_subjects(courses_df)
    /\ UNCHANGED <<files, pc, recommender, engine>>

GetAllLevels ==
    /\ pc = "ready"
    /\ op' = "get_all_levels"
    /\ args' = <<>>
    /\ result' = get_all_levels(courses_df)
    /\ UNCHANGED <<files, pc, recommender, engine>>

GetCourseDetails ==
    /\ pc = "ready"
    /\ \E course_title \in SeedTitles :
          /\ op' = "get_course_details"
          /\ args' = <<course_title>>
          /\ result' = get_course_details(courses_df, course_title)
    /\ UNCHANGED <<files, pc, recommender, engine>>

GetUserStatistics ==
    /\ pc = "ready"
    /\ \E user_id \in UserIds :
          /\ op' = "get_user_statistics"
          /\ args' = <<user_id>>
          /\ result' = get_user_statistics(interactions_df, user_id)
    /\ UNCHANGED <<files, pc, recommender, engine>>

GetPlatformStatistics ==
    /\ pc = "ready"
    /\ op' = "get_platform_statistics"
    /\ args' = <<>>
    /\ result' = get_platform_statistics(courses_df, interactions_df, profiles_df)
    /\ UNCHANGED <<files, pc, recommender, engine>>

GetSubjectDistribution ==
    /\ pc = "ready"
    /\ op' = "get_subject_distribution"
    /\ args' = <<>>
    /\ result' = get_subject_distribution(courses_df)
    /\ UNCHANGED <<files, pc, recommender, engine>>

GetLevelDistribution ==
    /\ pc = "ready"
    /\ op' = "get_level_distribution"
    /\ args' = <<>>
    /\ result' = get_level_distribution(courses_df)
    /\ UNCHANGED <<files, pc, recommender, engine>>

-----------------------------------------------------------------------------
(* Specifications *)

\* item-to-item recommendation over every catalog of up to MaxCourses rows
InitItem == InitWith(Catalogs(ItemRows, MaxCourses), {<<>>})

NextItem == Construct \/ RecommendByCourse

SpecItem == InitItem /\ [][NextItem]_vars

\* user-to-item recommendation over the user catalogs and every interaction
\* table of up to MaxInteractions rows
InitUser == InitWith(UserCatalogs, SeqsOf(InteractionRows, 0, MaxInteractions))

NextUser == Construct \/ RecommendByUser

SpecUser == InitUser /\ [][NextUser]_vars

\* search, trending and the enumerations over every catalog of up to
\* MaxCourses rows
InitQuery == InitWith(Catalogs(QueryRows, MaxCourses), {<<>>, QueryTable})

NextQuery ==
    \/ Construct
    \/ SearchCourses
    \/ GetTrendingCourses
    \/ GetAllCourses
    \/ GetAllUsers
    \/ GetAllSubjects
    \/ GetAllLevels

SpecQuery == InitQuery /\ [][NextQuery]_vars

\* user statistics over every interaction table of up to MaxStatRows rows:
\* a user under a padded and an unpadded id, the same item twice, two subjects
StatRows ==
    { Interaction(s_u1, s_c1, 50, s_cs),
      Interaction(s_u1pad, s_c1pad, 30, s_art),
      Interaction(s_u1, s_c2, 40, s_art),
      Interaction(s_u2, s_c1, 45, s_cs) }

InitStats ==
    InitWith({SubSeq(UserCatalog, 1, 2)}, SeqsOf(StatRows, 0, MaxStatRows))

NextStats == Construct \/ GetUserStatistics

SpecStats == InitStats /\ [][NextStats]_vars

\* the id-to-index map over catalogs whose ids differ as written in the file:
\* plain ids, and an id written with white space around it
IndexRows ==
    { Course(s_c1, s_py, NaN, NaN, s_ai, 40, 100),
      Course(s_c1pad, s_ml, NaN, NaN, s_py, 40, 100),
      Course(s_c2, s_go, NaN, NaN, s_ai, 40, 100),
      Course(s_c3, s_ai, NaN, NaN, s_ml, 40, 100) }

InitIndex ==
    InitWith(Catalogs(IndexRows, MaxCourses),
             {<<Interaction(s_u1, s_c1, 50, s_cs)>>})

NextIndex == Construct \/ RecommendByUser

SpecIndex == InitIndex /\ [][NextIndex]_vars

\* the dashboard: data files that may be missing, a catalog without any term
\* (its only word is a stop word), and every query main() can issue
AppCatalogs ==
    {Missing, UserCatalog, SubSeq(UserCatalog, 1, 2),
     <<Course(s_c4, s_of, NaN, NaN, NaN, 40, 100)>>}
        \cup Catalogs(QueryRows, 2)

InitApp ==
    InitFiles(AppCatalogs, {Missing, QueryTable, <<>>}, {Missing, Profiles})

\* every operation of the engine, over a few whole data sets
Init ==
    InitWith({UserCatalog, SubSeq(UserCatalog, 1, 2)} \cup Catalogs(QueryRows, 2),
             {QueryTable, <<>>})

Next ==
    \/ Construct
    \/ RecommendByCourse
    \/ RecommendByUser
    \/ SearchCourses
    \/ GetTrendingCourses
    \/ GetAllCourses
    \/ GetAllUsers
    \/ GetAllSubjects
    \/ GetAllLevels
    \/ GetCourseDetails
    \/ GetUserStatistics
    \/ GetPlatformStatistics
    \/ GetSubjectDistribution
    \/ GetLevelDistribution

Spec == Init /\ [][Next]_vars

SpecApp == InitApp /\ [][Next]_vars

-----------------------------------------------------------------------------
(* Properties of recommend_by_course *)

\* the catalog has a row whose title is the title queried
SeedMatches == \E k \in 1..Len(courses_df) : courses_df[k].title = args[1]

\* the index of the seed: the first row with the title queried
SeedIdx ==
    CHOOSE idx \in 0..(Len(courses_df) - 1) :
        /\ iloc(courses_df, idx).title = args[1]
        /\ \A j \in 0..(idx - 1) : iloc(courses_df, j).title # args[1]

ByCourse == pc = "ready" /\ op = "recommend_by_course"

\* the similarity of the item at idx to the seed, read from the matrix
SeedSimilarity(idx) == iloc(iloc(similarity_matrix, SeedIdx), idx)

\* C1: for a seed title that matches an item and top_n >= 1, no entry
\* returned by recommend_by_course is the item at the seed's index.
C1_SeedNeverReturned ==
    (ByCourse /\ SeedMatches /\ args[2] >= 1) =>
        \A k \in 1..Len(result) : result[k].idx # SeedIdx

\* C2: the entries returned by recommend_by_course are in descending order of
\* their similarity to the seed, and of two entries with equal similarity the
\* one with the lower original index comes first.
C2_SortedBySimilarity ==
    (ByCourse /\ SeedMatches) =>
        \A k, l \in 1..Len(result) :
            k < l =>
                \/ SeedSimilarity(result[k].idx) > SeedSimilarity(result[l].idx)
                \/ /\ SeedSimilarity(result[k].idx) = SeedSimilarity(result[l].idx)
                   /\ result[k].idx < result[l].idx

\* a result holding both a tie and a strict descent
C2_Witness ==
    /\ ByCourse /\ SeedMatches
    /\ \E k, l \in 1..Len(result) :
          /\ k < l
          /\ SeedSimilarity(result[k].idx) = SeedSimilarity(result[l].idx)
    /\ \E k, l \in 1..Len(result) :
          /\ k < l
          /\ SeedSimilarity(result[k].idx) > SeedSimilarity(result[l].idx)

\* C3: for a seed title that matches an item of a catalog of N items the
\* result has exactly min(max(top_n, 0), N - 1) entries: none for top_n <= 0,
\* all N - 1 other items for top_n > N - 1.
C3_ResultLength ==
    (ByCourse /\ SeedMatches) =>
        Len(result) = Min(Max(args[2], 0), Len(courses_df) - 1)

-----------------------------------------------------------------------------
(* Properties of recommend_by_user *)

ByUser == pc = "ready" /\ op = "recommend_by_user"

\* the interactions of the user queried
TheUserCourses == rows_of_user(interactions_df, Strip(args[1]))

\* C4: no entry returned by recommend_by_user has an item id that appears in
\* one of the user's interactions, whatever its rating.
C4_TakenExcluded ==
    ByUser =>
        \A k \in 1..Len(result) :
            \A j \in 1..Len(interactions_df) :
                interactions_df[j].user_id = Strip(args[1]) =>
                    result[k].course_id # interactions_df[j].course_id

\* a non-empty result for a user who has a liked interaction and also an
\* interaction rated below 4.5 with an item of the catalog
C4_Witness ==
    /\ ByUser
    /\ result # <<>>
    /\ \E j \in 1..Len(TheUserCourses) : TheUserCourses[j].rating >= LikedRating
    /\ \E j \in 1..Len(TheUserCourses) :
          /\ TheUserCourses[j].rating < LikedRating
          /\ TheUserCourses[j].course_id \in DOMAIN course_id_to_idx

\* the liked subset as the claim defines it
ClaimedLiked ==
    IF \A j \in 1..Len(TheUserCourses) : TheUserCourses[j].rating < LikedRating
    THEN TheUserCourses
    ELSE SelectSeq(TheUserCourses, LAMBDA r : ~(r.rating < LikedRating))

\* the result computed from a given liked subset
ResultFromLiked(liked) ==
    IF liked_indices(liked, course_id_to_idx) = <<>> THEN <<>>
    ELSE recommend_from(courses_df, similarity_matrix,
                        liked_indices(liked, course_id_to_idx),
                        taken_course_ids(TheUserCourses), args[2])

\* C5: when no interaction of the user has rating >= 4.5 the result is the
\* one computed with the whole interaction set as the liked subset;
\* otherwise it is the one computed with the interactions rated >= 4.5.
C5_LikedFallback ==
    (ByUser /\ TheUserCourses # <<>>) => result = ResultFromLiked(ClaimedLiked)

\* a non-empty result obtained through the fallback
C5_Witness ==
    /\ ByUser
    /\ result # <<>>
    /\ \A j \in 1..Len(TheUserCourses) : TheUserCourses[j].rating < LikedRating

\* the aggregate score of the item at idx: the mean of the liked rows
AggregateScore(idx) ==
    iloc(avg_similarity(similarity_matrix,
                        liked_indices(liked_courses(TheUserCourses), course_id_to_idx)),
         idx)

\* the items recommend_by_user may return: those the user has not taken
IsCandidate(idx) ==
    iloc(courses_df, idx).course_id \notin taken_course_ids(TheUserCourses)

\* C6: for top_n >= 1 the entries returned by recommend_by_user are in
\* descending order of aggregate score (the unrounded mean similarity) with
\* ties in ascending index order, and no candidate left out has a higher
\* aggregate score than an entry returned.
C6_RankedByAggregate ==
    (ByUser /\ args[2] >= 1 /\ result # <<>>) =>
        /\ \A k, l \in 1..Len(result) :
              k < l =>
                \/ AggregateScore(result[k].idx) > AggregateScore(result[l].idx)
                \/ /\ AggregateScore(result[k].idx) = AggregateScore(result[l].idx)
                   /\ result[k].idx < result[l].idx
        /\ \A idx \in 0..(Len(courses_df) - 1) :
              (IsCandidate(idx) /\ \A k \in 1..Len(result) : result[k].idx # idx) =>
                  \A k \in 1..Len(result) :
                      AggregateScore(idx) <= AggregateScore(result[k].idx)

-----------------------------------------------------------------------------
(* Properties of search_courses *)

\* search_courses raised instead of returning a frame
SearchRaised == result # <<>> /\ "raised" \in DOMAIN result[1]

\* search_courses was called and returned a frame
BySearch == pc = "ready" /\ op = "search_courses" /\ ~SearchRaised

\* the query is found, ignoring case, in the title, description or subject
QueryFound(r) ==
    \E cell \in {r.title, r.description, r.subject} : str_contains(cell, args[1])

\* the subject, level and rating conditions of the claim
OtherFiltersHold(r) ==
    /\ (args[2] # None /\ args[2] # sEmpty /\ args[2] # sAll) => r.subject = args[2]
    /\ (args[3] # None /\ args[3] # sEmpty /\ args[3] # sAll) => r.level = args[3]
    /\ args[4] > 0 => r.rating >= args[4]

NoOtherFilter ==
    /\ args[2] \in {None, sEmpty, sAll}
    /\ args[3] \in {None, sEmpty, sAll}
    /\ args[4] <= 0

QueryNonEmpty == args[1] # None /\ args[1] # sEmpty

QueryNonBlank ==
    /\ args[1] # None
    /\ \E i \in 1..Len(args[1]) : ~IsSpace(args[1][i])

-----------------------------------------------------------------------------
(* Properties of get_trending_courses *)

ByTrending == pc = "ready" /\ op = "get_trending_courses"

\* rating * sqrt(students) orders the items as rating^2 * students does
ScoreSquared(idx) ==
    iloc(courses_df, idx).rating * iloc(courses_df, idx).rating
        * iloc(courses_df, idx).students

\* C8: get_trending_courses(top_n) returns min(max(top_n, 0), N) items in
\* descending order of rating * sqrt(students), items of equal score in
\* catalog order, and an item left out has a lower score than every item
\* returned, or the same score and a later place in the catalog.
C8_TrendingRanked ==
    ByTrending =>
        /\ Len(result) = Min(Max(args[1], 0), Len(courses_df))
        /\ \A k, l \in 1..Len(result) :
              k < l =>
                \/ ScoreSquared(result[k].idx) > ScoreSquared(result[l].idx)
                \/ /\ ScoreSquared(result[k].idx) = ScoreSquared(result[l].idx)
                   /\ result[k].idx < result[l].idx
        /\ \A idx \in 0..(Len(courses_df) - 1) :
              (\A k \in 1..Len(result) : result[k].idx # idx) =>
                  \A k \in 1..Len(result) :
                      \/ ScoreSquared(idx) < ScoreSquared(result[k].idx)
                      \/ /\ ScoreSquared(idx) = ScoreSquared(result[k].idx)
                         /\ idx > result[k].idx

\* a result with a strict descent whose last item has the same score as an
\* item left out
C8_Witness ==
    /\ ByTrending
    /\ \E k, l \in 1..Len(result) :
          k < l /\ ScoreSquared(result[k].idx) > ScoreSquared(result[l].idx)
    /\ \E idx \in 0..(Len(courses_df) - 1) :
          /\ \A k \in 1..Len(result) : result[k].idx # idx
          /\ ScoreSquared(idx) = ScoreSquared(result[Len(result)].idx)

-----------------------------------------------------------------------------
(* Properties of the enumeration helpers *)

ByEnumeration ==
    /\ pc = "ready"
    /\ op \in {"get_all_courses", "get_all_users", "get_all_subjects",
               "get_all_levels"}

\* C9: each enumeration helper returns a sorted list without a repeated
\* element: every element is strictly less than the next.
C9_SortedNoRepeat ==
    ByEnumeration =>
        \A k \in 1..(Len(result) - 1) : StrLess(result[k], result[k + 1])

-----------------------------------------------------------------------------
(* Frame of the queries *)

\* C10: whatever queries have run, the item table, the interaction table, the
\* id-to-index map and the similarity matrix are what construction made of
\* the input files, so every query answers as it would right after
\* construction.
C10_EngineUnchanged ==
    pc = "ready" =>
        /\ courses_df = prepare_courses(courses_file)
        /\ interactions_df = prepare_interactions(interactions_file)
        /\ course_id_to_idx = build_course_id_to_idx(prepare_courses(courses_file))
        /\ similarity_matrix = build_similarity_matrix(prepare_courses(courses_file))

\* the engine after a trending query that returned rows
C10_Witness ==
    /\ pc = "ready"
    /\ op = "get_trending_courses"
    /\ result # <<>>
    /\ courses_df = prepare_courses(courses_file)

-----------------------------------------------------------------------------
(* Construction before queries (the dashboard) *)

\* every attribute of the engine is what a completed construction assigns
EngineBuilt ==
    /\ courses_df = prepare_courses(courses_file)
    /\ interactions_df = prepare_interactions(interactions_file)
    /\ profiles_df = profiles_file
    /\ similarity_matrix = build_similarity_matrix(prepare_courses(courses_file))
    /\ course_id_to_idx = build_course_id_to_idx(prepare_courses(courses_file))

\* C11: a query has been issued only if load_recommender returned an engine
\* whose construction completed; and once construction has raised (a missing
\* file, an empty vocabulary), main holds None instead of the partly built
\* object, has returned, and no query has been issued.
C11_ConstructedBeforeQuery ==
    /\ (op # "none" \/ pc = "ready") =>
          /\ recommender = "CourseRecommender"
          /\ ~InitRaises(courses_file, interactions_file, profiles_file)
          /\ EngineBuilt
    /\ (pc # "start"
        /\ InitRaises(courses_file, interactions_file, profiles_file)) =>
          /\ recommender = "None"
          /\ pc = "failed"
          /\ op = "none"

\* construction raised after courses_df was assigned (a later file is missing
\* or the vocabulary is empty): the partly built object exists, main holds
\* None and has returned
C11_Witness ==
    /\ pc = "failed"
    /\ recommender = "None"
    /\ courses_df # <<>>
    /\ similarity_matrix = <<>>
    /\ op = "none"

-----------------------------------------------------------------------------
(* Properties of the constructed engine *)

\* C12: after construction every diagonal entry of the similarity matrix is
\* 1.0 and the matrix is symmetric.
C12_DiagonalOneSymmetric ==
    pc = "ready" =>
        \A i, j \in 0..(Len(courses_df) - 1) :
            /\ iloc(iloc(similarity_matrix, i), i) = Scale
            /\ iloc(iloc(similarity_matrix, i), j)
                   = iloc(iloc(similarity_matrix, j), i)

-----------------------------------------------------------------------------
(* Not found *)

\* the ids of the catalog
CatalogIds == {courses_df[k].course_id : k \in 1..Len(courses_df)}

\* the user has no interaction, or none of the liked items is in the catalog
UserNotFound ==
    \/ TheUserCourses = <<>>
    \/ \A k \in 1..Len(ClaimedLiked) : ClaimedLiked[k].course_id \notin CatalogIds

\* no row of the catalog satisfies the filters of the search
NoSearchMatch ==
    \A k \in 1..Len(courses_df) :
        ~((QueryNonBlank => QueryFound(courses_df[k]))
          /\ OtherFiltersHold(courses_df[k]))

\* C13 for the calls that take a title or a user: an unknown title gives an
\* empty list, a user without interactions or without a liked item in the
\* catalog gives an empty list, and statistics of a user without interactions
\* are None.
NotFoundByKey ==
    /\ (op = "recommend_by_course" /\ ~SeedMatches) => result = <<>>
    /\ (op = "recommend_by_user" /\ UserNotFound) => result = <<>>
    /\ (op = "get_user_statistics" /\ TheUserCourses = <<>>) => result = NoneDict

\* C13: a "not found" condition gives an empty result and never an error:
\* the calls by title or user as above, and a search that no row matches
\* returns an empty record set instead of raising.
C13_NotFoundIsEmpty ==
    pc = "ready" =>
        /\ NotFoundByKey
        /\ (op = "search_courses" /\ NoSearchMatch) =>
               (result = <<>> /\ ~SearchRaised)

-----------------------------------------------------------------------------
(* Properties of get_user_statistics *)

ByStats == pc = "ready" /\ op = "get_user_statistics"

\* the rows of the interaction file that belong to the user queried, ids
\* compared after trimming
StatRowsOfUser ==
    {k \in 1..Len(interactions_file) :
        Strip(interactions_file[k].user_id) = Strip(args[1])}

\* how many of them carry the subject
SubjectFrequency(subject) ==
    Cardinality({k \in StatRowsOfUser : interactions_file[k].subject = subject})

\* C14: get_user_statistics returns None exactly when the trimmed user id has
\* no interaction; otherwise total_courses is the number of the user's
\* interactions, each repeated interaction counted, completed_courses equals
\* it, in_progress_courses is 0 and no subject is more frequent among the
\* user's interactions than favorite_subject.
C14_UserStatistics ==
    ByStats =>
        /\ (result = NoneDict) <=> (StatRowsOfUser = {})
        /\ StatRowsOfUser # {} =>
              /\ result.total_courses = Cardinality(StatRowsOfUser)
              /\ result.completed_courses = result.total_courses
              /\ result.in_progress_courses = 0
              /\ SubjectFrequency(result.favorite_subject) > 0
              /\ \A k \in StatRowsOfUser :
                    SubjectFrequency(interactions_file[k].subject)
                        <= SubjectFrequency(result.favorite_subject)

\* statistics of a user with three interactions, two of them with the same
\* item, one under a padded id, whose first subject is not the favorite
C14_Witness ==
    /\ ByStats
    /\ Cardinality(StatRowsOfUser) = 3
    /\ result.total_courses = 3
    /\ \E j, k \in StatRowsOfUser :
          /\ j # k
          /\ Strip(interactions_file[j].course_id)
                 = Strip(interactions_file[k].course_id)
    /\ \E k \in StatRowsOfUser : interactions_file[k].user_id # Strip(args[1])
    /\ SubjectFrequency(result.favorite_subject) = 2
    /\ interactions_file[1].subject # result.favorite_subject

-----------------------------------------------------------------------------
(* The aggregate preference vector *)

\* the ids of the liked subset, as the claim defines it
ClaimedLikedIds == {ClaimedLiked[k].course_id : k \in 1..Len(ClaimedLiked)}

\* the indices the liked ids resolve to; an id absent from the catalog
\* resolves to none
ResolvedLiked ==
    {course_id_to_idx[id] : id \in ClaimedLikedIds \cap DOMAIN course_id_to_idx}

\* the arithmetic mean over the resolved indices of their similarity to idx
MeanOfLikedRows(idx) ==
    SumOver(ResolvedLiked,
            [i \in ResolvedLiked |-> iloc(iloc(similarity_matrix, i), idx)])
        \div Cardinality(ResolvedLiked)

\* C15: the score recommend_by_user computes for an item is the arithmetic
\* mean of the similarities of the item to the liked items that are in the
\* catalog; a liked id absent from the catalog contributes no row and is not
\* counted in the divisor.
C15_AggregateIsMean ==
    ByUser =>
        \A k \in 1..Len(result) : result[k].score = MeanOfLikedRows(result[k].idx)

\* a recommendation for a user one of whose liked ids is not in the catalog
C15_Witness ==
    /\ ByUser
    /\ result # <<>>
    /\ ClaimedLikedIds \ DOMAIN course_id_to_idx # {}
    /\ ResolvedLiked # {}
    /\ \E k \in 1..Len(result) : result[k].score \notin {0, Scale}

-----------------------------------------------------------------------------
(* The id-to-index map *)

\* C16: after construction the map is a bijection between the trimmed ids of
\* the catalog and the indices 0..N-1: its keys are the trimmed ids, every
\* index is the image of exactly one id, and the id stored at index k maps
\* back to k.
C16_IdIndexBijection ==
    pc = "ready" =>
        LET N == Len(courses_file)
        IN  /\ DOMAIN course_id_to_idx
                   = {Strip(courses_file[k].course_id) : k \in 1..N}
            /\ \A idx \in 0..(N - 1) :
                   Cardinality({id \in DOMAIN course_id_to_idx :
                                   course_id_to_idx[id] = idx}) = 1
            /\ \A idx \in 0..(N - 1) :
                   course_id_to_idx[iloc(courses_df, idx).course_id] = idx

=============================================================================
